---- MODULE Spec2Model ----
(***************************************************************************)
(* Scene partitioning and sampler-argument assembly of the two THOR        *)
(* experiment configurations                                               *)
(*   ObjectNavThorPPOExperimentConfig   (experiments/object_nav_thor_a2c)  *)
(*   ObjectManipThorPPOExperimentConfig (experiments/object_manip_thor_ppo)*)
(* together with the stage cursor of the training pipeline they declare.   *)
(*                                                                         *)
(* Python values are encoded as follows.  A list is a sequence (Python     *)
(* index i is TLA+ index i + 1).  The scene "FloorPlan<k>_physics" is the  *)
(* number k.  An Optional[int] is the empty set (None) or a singleton.     *)
(* A dict is a record or a function on its keys; a dict that is shared by  *)
(* reference lives in `heap` and is named by its address.  An exception    *)
(* leaving a method is the name of its class in the field `err`.           *)
(***************************************************************************)
EXTENDS Integers, Sequences, FiniteSets, TLC

VARIABLES
    split_scenes,     \* _get_sampler_args_for_scene_split: argument scenes
    split_total,      \* ... argument total_processes
    split_seeds,      \* ... argument seeds
    split_out,        \* process_ind -> outcome of the call made for it
    config,           \* the experiment class in use: "nav" or "manip"
    TRAIN_SCENES,     \* class attribute: the training scene list
    VALID_SCENES,     \* class attribute: the validation scene list
    TEST_SCENES,      \* class attribute: the test scene list
    heap,             \* address -> dict, for the dicts held by reference
    returned,         \* the latest dict returned, after the one returned before it
    call,             \* the arguments of the call that returned the latest dict
    raised,           \* the exception that left the latest call, or "none"
    pipeline_stages,  \* TrainingPipeline: max_stage_steps of each stage
    current_stage,    \* ... index of the current stage; Len(stages) is "complete"
    steps_in_stage,   \* ... steps consumed in the current stage
    request           \* the latest request of the driver and its outcome

varsSplit == <<split_scenes, split_total, split_seeds, split_out>>

varsArgs ==
    <<config, TRAIN_SCENES, VALID_SCENES, TEST_SCENES, heap, returned, call, raised>>

varsPipeline == <<pipeline_stages, current_stage, steps_in_stage, request>>

vars == <<varsSplit, varsArgs, varsPipeline>>

(***************************************************************************)
(* Bounds of the model.                                                    *)
(***************************************************************************)
MaxLen == 6        \* longest scene list passed to the scene split
MaxParts == 7      \* largest total_processes passed to the scene split
MinParts == 2      \* total_processes ranges down to -MinParts
MaxScenes == 2     \* longest class scene list (TRAIN_SCENES, ...)
MaxProcs == 2      \* largest total_processes given to *_task_sampler_args
MaxStages == 2     \* most stages of a training pipeline
MaxBudget == 4     \* largest max_stage_steps of a stage
MaxReport == 2     \* most steps the driver reports at once

\* the pipeline variables where no pipeline is followed
PipelineIdle ==
    /\ pipeline_stages = <<>>
    /\ current_stage = 0
    /\ steps_in_stage = 0
    /\ request = <<>>

(***************************************************************************)
(* Python arithmetic.                                                      *)
(***************************************************************************)
\* a // b for b > 0 (floor division)
FloorDiv(a, b) == IF a >= 0 THEN a \div b ELSE -((-a + b - 1) \div b)

\* a % b of Python for b # 0: the result has the sign of the divisor
PyMod(a, b) ==
    IF b > 0 THEN a - b * FloorDiv(a, b)
    ELSE -((-a) - (-b) * FloorDiv(-a, -b))

\* int(ceil(a / b)) for a >= 0, b > 0
CeilDivTruncating(a, b) == a \div b

CeilDiv(a, b) == (a + b - 1) \div b

\* np.round of the rational a / b (a >= 0, b > 0): ties go to the even integer
RoundHalfEven(a, b) ==
    LET q == a \div b
        r == a % b
    IN  IF 2 * r < b THEN q
        ELSE IF 2 * r > b THEN q + 1
        ELSE IF q % 2 = 0 THEN q ELSE q + 1

(***************************************************************************)
(* Python lists.                                                           *)
(***************************************************************************)
\* lst * k
RECURSIVE Repeat(_, _)
Repeat(lst, k) == IF k <= 0 THEN <<>> ELSE lst \o Repeat(lst, k - 1)

\* lst[lo:hi] for 0 <= lo, 0 <= hi (out-of-range bounds are clipped)
Slice(lst, lo, hi) ==
    LET h == IF hi > Len(lst) THEN Len(lst) ELSE hi
    IN  IF lo >= h THEN <<>> ELSE SubSeq(lst, lo + 1, h)

\* ["FloorPlan1_physics", ..., "FloorPlan<n>_physics"]
SceneList(n) == [k \in 1..n |-> k]

(***************************************************************************)
(* _partition_inds(n, num_parts):                                          *)
(*   np.round(np.linspace(0, n, num_parts + 1, endpoint=True)).astype(..)  *)
(* linspace raises ValueError for a negative number of samples, returns    *)
(* the empty array for zero samples, and otherwise the samples             *)
(* i * (n / num_parts), the last one being n itself.  The samples are      *)
(* computed here as exact rationals; for n below 15 the binary64 products  *)
(* round to the same integers.                                             *)
(***************************************************************************)
_partition_inds_no_endpoint(n, num_parts) ==
    IF num_parts + 1 < 0 THEN [err |-> "ValueError", inds |-> <<>>]
    ELSE IF num_parts + 1 = 0 THEN [err |-> "none", inds |-> <<>>]
    ELSE [err |-> "none",
          inds |-> [j \in 1..(num_parts + 1) |->
                      RoundHalfEven(n * (j - 1), num_parts + 1)]]

_partition_inds(n, num_parts) ==
    IF num_parts + 1 < 0 THEN [err |-> "ValueError", inds |-> <<>>]
    ELSE IF num_parts + 1 = 0 THEN [err |-> "none", inds |-> <<>>]
    ELSE [err |-> "none",
          inds |-> [j \in 1..(num_parts + 1) |->
                      IF j = num_parts + 1 THEN n
                      ELSE RoundHalfEven(n * (j - 1), num_parts)]]

(***************************************************************************)
(* _get_sampler_args_for_scene_split(scenes, process_ind, total_processes, *)
(* seeds).  The outcome records the exception that left the method (or     *)
(* "none"), whether the oversampling warning was printed, the local        *)
(* `scenes` after normalisation, the local `inds`, and the returned dict.  *)
(* The dict's env_args is the class attribute ENV_ARGS itself: the caller  *)
(* supplies its address.  The static entries object_types, sensors,        *)
(* action_space and deterministic_cudnn are passed through unread and are  *)
(* left out.                                                               *)
(***************************************************************************)
MAX_STEPS == 128

Raised(e, w) ==
    [err |-> e, warned |-> w, norm |-> <<>>, inds |-> <<>>, res |-> <<>>]

\* the normalisation of the scene list: [err, warned, scenes]
NormalizeNoTruncation(scenes, total_processes) ==
    IF total_processes > Len(scenes)
    THEN IF Len(scenes) = 0
         THEN [err |-> "ZeroDivisionError", warned |-> FALSE, scenes |-> <<>>]
         ELSE [err |-> "none",
               warned |-> PyMod(total_processes, Len(scenes)) # 0,
               scenes |-> Repeat(scenes, CeilDiv(total_processes, Len(scenes)))]
    ELSE IF total_processes = 0
         THEN [err |-> "ZeroDivisionError", warned |-> FALSE, scenes |-> <<>>]
         ELSE [err |-> "none",
               warned |-> PyMod(Len(scenes), total_processes) # 0,
               scenes |-> scenes]

NormalizeAlwaysWarns(scenes, total_processes) ==
    IF total_processes > Len(scenes)
    THEN IF Len(scenes) = 0
         THEN [err |-> "ZeroDivisionError", warned |-> FALSE, scenes |-> <<>>]
         ELSE LET rep == Repeat(scenes, CeilDiv(total_processes, Len(scenes)))
              IN  [err |-> "none",
                   warned |-> TRUE,
                   scenes |-> Slice(rep, 0,
                       total_processes * FloorDiv(Len(rep), total_processes))]
    ELSE IF total_processes = 0
         THEN [err |-> "ZeroDivisionError", warned |-> FALSE, scenes |-> <<>>]
         ELSE [err |-> "none",
               warned |-> PyMod(Len(scenes), total_processes) # 0,
               scenes |-> scenes]

Normalize(scenes, total_processes) ==
    IF total_processes > Len(scenes)
    THEN IF Len(scenes) = 0
         THEN [err |-> "ZeroDivisionError", warned |-> FALSE, scenes |-> <<>>]
         ELSE LET rep == Repeat(scenes, CeilDiv(total_processes, Len(scenes)))
              IN  [err |-> "none",
                   warned |-> PyMod(total_processes, Len(scenes)) # 0,
                   scenes |-> Slice(rep, 0,
                       total_processes * FloorDiv(Len(rep), total_processes))]
    ELSE IF total_processes = 0
         THEN [err |-> "ZeroDivisionError", warned |-> FALSE, scenes |-> <<>>]
         ELSE [err |-> "none",
               warned |-> PyMod(Len(scenes), total_processes) # 0,
               scenes |-> scenes]

_get_sampler_args_for_scene_split(scenes, process_ind, total_processes, seeds, env_ref) ==
    LET nz == Normalize(scenes, total_processes)
    IN  IF nz.err # "none" THEN Raised(nz.err, nz.warned)
        ELSE
        LET pi == _partition_inds(Len(nz.scenes), total_processes)
        IN  IF pi.err # "none" THEN Raised(pi.err, nz.warned)
            ELSE IF process_ind + 1 > Len(pi.inds) \/ process_ind + 2 > Len(pi.inds)
            THEN Raised("IndexError", nz.warned)
            ELSE IF seeds # <<>> /\ process_ind + 1 > Len(seeds[1])
            THEN Raised("IndexError", nz.warned)
            ELSE [err |-> "none",
                  warned |-> nz.warned,
                  norm |-> nz.scenes,
                  inds |-> pi.inds,
                  res |-> [scenes |-> Slice(nz.scenes, pi.inds[process_ind + 1],
                                            pi.inds[process_ind + 2]),
                           env_args |-> env_ref,
                           max_steps |-> MAX_STEPS,
                           seed |-> IF seeds # <<>>
                                    THEN {seeds[1][process_ind + 1]} ELSE {}]]

(***************************************************************************)
(* Class attributes of the two experiment configurations.                  *)
(***************************************************************************)
SCREEN_SIZE == 224
SCENE_PERIOD == 10
VALID_SAMPLES_IN_SCENE == 5
TEST_SAMPLES_IN_SCENE == 2

\* the address of the class attribute ENV_ARGS, and its dict literal
ENV_ARGS == 0

EnvArgsLiteral ==
    [player_screen_height |-> SCREEN_SIZE,
     player_screen_width |-> SCREEN_SIZE,
     quality |-> "Very Low"]

\* d[k] = v on a dict
SetItem(d, k, v) == (k :> v) @@ d

\* "0.%d" % d
FormatDisplay(d) == "0." \o ToString(d)

\* nav:   "0.%d" % devices[0] if len(devices) > 0 else None
x_display_nav(devices, process_ind) ==
    IF Len(devices) > 0 THEN FormatDisplay(devices[1]) ELSE "None"

\* manip: ("0.%d" % devices[process_ind % len(devices)]) if len(devices) > 0 else None
x_display_manip(devices, process_ind) ==
    IF Len(devices) > 0
    THEN FormatDisplay(devices[PyMod(process_ind, Len(devices)) + 1])
    ELSE "None"

\* VALID_SAMPLES_IN_SCENE * len(res["scenes"])
MaxTasksPeriodOnly(samples_in_scene, res_scenes) == samples_in_scene

MaxTasks(samples_in_scene, res_scenes) == samples_in_scene * Len(res_scenes)

(***************************************************************************)
(* train_/valid_/test_task_sampler_args.  Each adds its entries to the     *)
(* dict of the scene split (scene_period and, for valid and test,          *)
(* max_tasks).  The nav class writes x_display into the dict               *)
(* res["env_args"] it got from the scene split, which is ENV_ARGS; the     *)
(* manip class first rebinds res["env_args"] to a new dict and copies      *)
(* ENV_ARGS into it.  A call that raises returns nothing and only          *)
(* `raised` changes.  The workers are followed two at a time: `returned`   *)
(* keeps the dict of the latest call and the one before it.                *)
(***************************************************************************)
\* the dict an earlier worker still holds once another call returns
Kept == IF returned = <<>> THEN <<>> ELSE <<returned[Len(returned)]>>

\* the address of a newly built dict: one that no kept dict has
NewAddress == IF Kept # <<>> /\ Kept[1].env_args = 1 THEN 2 ELSE 1

\* the heap without the dicts nothing refers to any more
Collect(h, dicts) ==
    [a \in {ENV_ARGS} \cup {dicts[i].env_args : i \in 1..Len(dicts)} |-> h[a]]

\* The last statements of each method: the x_display entry is written and
\* res returned.  Gives the heap and the dicts held once the method returns.
SetDisplayAndReturn(res, process_ind, devices) ==
    IF config = "nav"
    THEN LET h == [heap EXCEPT ![res.env_args] =
                      SetItem(@, "x_display", x_display_nav(devices, process_ind))]
             held == Kept \o <<res>>
         IN  [heap |-> Collect(h, held), returned |-> held]
    ELSE LET h == (NewAddress :>
                      SetItem(heap[ENV_ARGS], "x_display",
                              x_display_manip(devices, process_ind))) @@ heap
             held == Kept \o <<[res EXCEPT !.env_args = NewAddress]>>
         IN  [heap |-> Collect(h, held), returned |-> held]

train_task_sampler_args(process_ind, total_processes, devices) ==
    LET out == _get_sampler_args_for_scene_split(
                   TRAIN_SCENES, process_ind, total_processes, <<>>, ENV_ARGS)
        res == [scene_period |-> IF config = "nav" THEN SCENE_PERIOD ELSE "manual"]
                   @@ out.res
        done == SetDisplayAndReturn(res, process_ind, devices)
    IN  /\ raised' = out.err
        /\ IF out.err # "none"
           THEN UNCHANGED <<heap, returned, call>>
           ELSE /\ heap' = done.heap
                /\ returned' = done.returned
                /\ call' = [mode |-> "train", process_ind |-> process_ind,
                            devices |-> devices]
        /\ UNCHANGED <<config, TRAIN_SCENES, VALID_SCENES, TEST_SCENES, varsSplit, varsPipeline>>

valid_task_sampler_args(process_ind, total_processes, devices) ==
    LET out == _get_sampler_args_for_scene_split(
                   VALID_SCENES, process_ind, total_processes, <<>>, ENV_ARGS)
        res == [scene_period |-> VALID_SAMPLES_IN_SCENE,
                max_tasks |-> MaxTasks(VALID_SAMPLES_IN_SCENE, out.res.scenes)]
                   @@ out.res
        done == SetDisplayAndReturn(res, process_ind, devices)
    IN  /\ raised' = out.err
        /\ IF out.err # "none"
           THEN UNCHANGED <<heap, returned, call>>
           ELSE /\ heap' = done.heap
                /\ returned' = done.returned
                /\ call' = [mode |-> "valid", process_ind |-> process_ind,
                            devices |-> devices]
        /\ UNCHANGED <<config, TRAIN_SCENES, VALID_SCENES, TEST_SCENES, varsSplit, varsPipeline>>

test_task_sampler_args(process_ind, total_processes, devices) ==
    LET out == _get_sampler_args_for_scene_split(
                   TEST_SCENES, process_ind, total_processes, <<>>, ENV_ARGS)
        res == [scene_period |-> TEST_SAMPLES_IN_SCENE,
                max_tasks |-> MaxTasks(TEST_SAMPLES_IN_SCENE, out.res.scenes)]
                   @@ out.res
        done == SetDisplayAndReturn(res, process_ind, devices)
    IN  /\ raised' = out.err
        /\ IF out.err # "none"
           THEN UNCHANGED <<heap, returned, call>>
           ELSE /\ heap' = done.heap
                /\ returned' = done.returned
                /\ call' = [mode |-> "test", process_ind |-> process_ind,
                            devices |-> devices]
        /\ UNCHANGED <<config, TRAIN_SCENES, VALID_SCENES, TEST_SCENES, varsSplit, varsPipeline>>

\* the process indices asked for: those of the workers and the one beyond
ProcessInds(total) == 0..(IF total > 0 THEN total ELSE 0)

\* the process indices of the workers (index 0 when there is none)
WorkerInds(total) == 0..(IF total > 0 THEN total - 1 ELSE 0)

\* the devices lists handed over by the driver (gpu_ids of machine_params)
DevicesLists == {<<>>, <<0>>, <<0, 1>>}

NoCall == [mode |-> "none", process_ind |-> 0, devices |-> <<>>]

\* One of the two classes is in use.  Its three scene lists are one and the
\* same list in the source (the easy setting); its length is drawn here.
Init ==
    /\ config \in {"nav", "manip"}
    /\ TRAIN_SCENES \in {SceneList(n) : n \in 1..MaxScenes}
    /\ VALID_SCENES = TRAIN_SCENES
    /\ TEST_SCENES = TRAIN_SCENES
    /\ heap = (ENV_ARGS :> EnvArgsLiteral)
    /\ returned = <<>>
    /\ call = NoCall
    /\ raised = "none"
    /\ split_scenes = <<>>
    /\ split_total = 0
    /\ split_seeds = <<>>
    /\ split_out = <<>>
    /\ PipelineIdle

Next ==
    \E total_processes \in 0..MaxProcs :
    \E process_ind \in WorkerInds(total_processes) :
    \E devices \in DevicesLists :
        \/ train_task_sampler_args(process_ind, total_processes, devices)
        \/ valid_task_sampler_args(process_ind, total_processes, devices)
        \/ test_task_sampler_args(process_ind, total_processes, devices)

Spec == Init /\ [][Next]_vars

(***************************************************************************)
(* The scene split called directly: one scene list and one process count,  *)
(* the call made once for each process index the driver asks for.          *)
(***************************************************************************)
NotCalled == [err |-> "not called"]

\* seeds is None (<<>>) or a list (<<list>>) long enough for every worker
SeedsArgs == {<<>>, <<[k \in 1..(MaxParts + 1) |-> 100 + k]>>}

InitSplit ==
    /\ split_scenes \in {SceneList(n) : n \in 0..MaxLen}
    /\ split_total \in (-MinParts)..MaxParts
    /\ split_seeds \in SeedsArgs
    /\ split_out = [i \in ProcessInds(split_total) |-> NotCalled]
    /\ config = "manip"
    /\ TRAIN_SCENES = <<>>
    /\ VALID_SCENES = <<>>
    /\ TEST_SCENES = <<>>
    /\ heap = <<>>
    /\ returned = <<>>
    /\ call = <<>>
    /\ raised = "none"
    /\ PipelineIdle

CallSplit(process_ind) ==
    /\ split_out[process_ind] = NotCalled
    /\ split_out' = [split_out EXCEPT ![process_ind] =
           _get_sampler_args_for_scene_split(split_scenes, process_ind,
                                             split_total, split_seeds, 0)]
    /\ UNCHANGED <<split_scenes, split_total, split_seeds, varsArgs, varsPipeline>>

NextSplit == \E process_ind \in ProcessInds(split_total) : CallSplit(process_ind)

SpecSplit == InitSplit /\ [][NextSplit]_vars

(***************************************************************************)
(* The stage cursor of the TrainingPipeline that training_pipeline()       *)
(* builds from its pipeline_stages.  The class lives in                    *)
(* utils/experiment_utils; the cursor follows its description.  The driver *)
(* reports consumed steps, or asks for the next stage (the stage's end     *)
(* criterion fired); once every stage is done the pipeline is complete and *)
(* both requests do nothing.                                               *)
(***************************************************************************)
Complete == current_stage = Len(pipeline_stages)

BudgetMet(n) == steps_in_stage + n >= pipeline_stages[current_stage + 1]

CursorAfterReportNeverAdvances(n) ==
    [stage |-> current_stage, steps |-> steps_in_stage + n]

CursorAfterReport(n) ==
    IF BudgetMet(n)
    THEN [stage |-> current_stage + 1, steps |-> 0]
    ELSE [stage |-> current_stage, steps |-> steps_in_stage + n]

report_steps(n) ==
    /\ request' = [kind |-> "report", n |-> n, err |-> "none"]
    /\ IF Complete
       THEN UNCHANGED <<current_stage, steps_in_stage>>
       ELSE /\ current_stage' = CursorAfterReport(n).stage
            /\ steps_in_stage' = CursorAfterReport(n).steps
    /\ UNCHANGED <<pipeline_stages, varsSplit, varsArgs>>

advance_stage ==
    /\ request' = [kind |-> "advance", n |-> 0, err |-> "none"]
    /\ IF Complete
       THEN UNCHANGED <<current_stage, steps_in_stage>>
       ELSE /\ current_stage' = current_stage + 1
            /\ steps_in_stage' = 0
    /\ UNCHANGED <<pipeline_stages, varsSplit, varsArgs>>

StageLists ==
    UNION {[1..k -> 1..MaxBudget] : k \in 1..MaxStages}

InitPipeline ==
    /\ pipeline_stages \in StageLists
    /\ current_stage = 0
    /\ steps_in_stage = 0
    /\ request = [kind |-> "none", n |-> 0, err |-> "none"]
    /\ split_scenes = <<>>
    /\ split_total = 0
    /\ split_seeds = <<>>
    /\ split_out = <<>>
    /\ config = "manip"
    /\ TRAIN_SCENES = <<>>
    /\ VALID_SCENES = <<>>
    /\ TEST_SCENES = <<>>
    /\ heap = <<>>
    /\ returned = <<>>
    /\ call = <<>>
    /\ raised = "none"

NextPipeline ==
    \/ \E n \in 1..MaxReport : report_steps(n)
    \/ advance_stage

SpecPipeline == InitPipeline /\ [][NextPipeline]_vars

(***************************************************************************)
(* Properties of the scene split.                                          *)
(***************************************************************************)
Workers == 0..(split_total - 1)

Returned(i) == i \in DOMAIN split_out /\ split_out[i].err = "none"

AllReturned == split_total > 0 /\ \A i \in Workers : Returned(i)

Abs(x) == IF x < 0 THEN -x ELSE x

\* C1: with 0 < P <= L the slices handed to process indices 0..P-1 are the
\* index ranges [inds[i], inds[i+1]) of the original list: consecutive (each
\* starts where the previous one ends, so none overlap), starting at 0 and
\* ending at L (so they cover 0..L-1 in order), each non-empty, and with
\* lengths that differ by at most 1.
C1_EvenContiguousPartition ==
    (AllReturned /\ split_total <= Len(split_scenes)) =>
        LET inds == split_out[0].inds
            L == Len(split_scenes)
        IN  /\ \A i \in Workers : split_out[i].inds = inds
            /\ Len(inds) = split_total + 1
            /\ inds[1] = 0
            /\ inds[split_total + 1] = L
            /\ \A i \in Workers :
                 /\ inds[i + 1] < inds[i + 2]
                 /\ split_out[i].res.scenes =
                        SubSeq(split_scenes, inds[i + 1] + 1, inds[i + 2])
            /\ \A i, j \in Workers :
                 Abs(Len(split_out[i].res.scenes) - Len(split_out[j].res.scenes)) <= 1

\* a split of more scenes than workers that cannot be even, all workers served
C1_Witness ==
    /\ AllReturned
    /\ split_total >= 4
    /\ split_total < Len(split_scenes)
    /\ Len(split_scenes) % split_total # 0
    /\ \E i, j \in Workers :
         Len(split_out[i].res.scenes) # Len(split_out[j].res.scenes)

\* C2: with P > L > 0 every call for a process index 0..P-1 returns, the
\* normalised scene list has a length that is a positive multiple of P, and
\* the worker receives at least one scene.
C2_OversubscribedNormalized ==
    (split_total > Len(split_scenes) /\ Len(split_scenes) > 0) =>
        \A i \in Workers :
            split_out[i] # NotCalled =>
                /\ split_out[i].err = "none"
                /\ Len(split_out[i].norm) > 0
                /\ Len(split_out[i].norm) % split_total = 0
                /\ Len(split_out[i].res.scenes) >= 1

\* more workers than scenes, not a multiple, all workers served
C2_Witness ==
    /\ AllReturned
    /\ Len(split_scenes) >= 2
    /\ split_total > Len(split_scenes)
    /\ split_total % Len(split_scenes) # 0

\* C5 as stated: with P > L > 0 every returned call printed the warning.
C5_AlwaysWarnsWhenOversubscribed ==
    (split_total > Len(split_scenes) /\ Len(split_scenes) > 0) =>
        \A i \in Workers : Returned(i) => split_out[i].warned

\* C5 amended: with P > L > 0 the scene list is replicated and truncated (the
\* normalised list is the first P scenes of the cyclic repetition of the
\* original), and the warning is printed exactly when P is not a multiple of
\* L; one scene and four processes give each worker that scene without a
\* warning.
C5_WarnsUnlessMultiple ==
    (split_total > Len(split_scenes) /\ Len(split_scenes) > 0) =>
        \A i \in Workers : Returned(i) =>
            /\ split_out[i].norm =
                   Slice(Repeat(split_scenes, split_total), 0, split_total)
            /\ split_out[i].warned <=> (split_total % Len(split_scenes) # 0)
            /\ (Len(split_scenes) = 1 /\ split_total = 4) =>
                   /\ split_out[i].res.scenes = split_scenes
                   /\ ~split_out[i].warned

\* one scene, four processes, all four served
C5_Witness ==
    /\ Len(split_scenes) = 1
    /\ split_total = 4
    /\ AllReturned

\* C6 as stated: a call with total_processes <= 0 or an empty scene list ends
\* in a ConfigurationError.
C6_BadInputIsConfigurationError ==
    (split_total <= 0 \/ Len(split_scenes) = 0) =>
        \A i \in DOMAIN split_out :
            split_out[i] # NotCalled => split_out[i].err = "ConfigurationError"

\* C10: with P > L > 0 the normalised list has length exactly P and process
\* index i receives exactly the one scene scenes[i mod L].
C10_OneSceneEachRoundRobin ==
    (split_total > Len(split_scenes) /\ Len(split_scenes) > 0) =>
        \A i \in Workers :
            split_out[i] # NotCalled =>
                /\ split_out[i].err = "none"
                /\ Len(split_out[i].norm) = split_total
                /\ split_out[i].res.scenes =
                       <<split_scenes[(i % Len(split_scenes)) + 1]>>

\* a worker beyond the first pass over the scene list got its scene
C10_Witness ==
    /\ Len(split_scenes) >= 2
    /\ split_total >= 2 * Len(split_scenes) + 1
    /\ Returned(split_total - 1)
    /\ split_out[split_total - 1].res.scenes = <<split_scenes[1]>>
(***************************************************************************)
(* Properties of the sampler-argument assembly.                            *)
(***************************************************************************)
Latest == returned[Len(returned)]

\* a returned dict with its env_args dict in place of the address
Contents(d, h) == [d EXCEPT !.env_args = h[d.env_args]]

\* C3 as stated: whatever calls are made, ENV_ARGS holds the dict it was
\* defined with (so it never has an x_display entry) and the three scene
\* lists keep their values.
C3_ClassAttributesNeverChange ==
    /\ [](heap[ENV_ARGS] = EnvArgsLiteral)
    /\ [][UNCHANGED <<TRAIN_SCENES, VALID_SCENES, TEST_SCENES>>]_vars

\* C4 as stated: the x_display of the dict a call returns is "0.%d" of
\* devices[process_ind % len(devices)] when devices is not empty, and None
\* when it is.
C4_DisplayRoundRobin ==
    returned # <<>> =>
        heap[Latest.env_args].x_display =
            IF Len(call.devices) > 0
            THEN FormatDisplay(
                     call.devices[(call.process_ind % Len(call.devices)) + 1])
            ELSE "None"

\* C7: a dict returned for validation or test has scene_period equal to the
\* mode's samples-per-scene constant and max_tasks equal to that constant
\* times the length of its own "scenes" list; a dict returned for training
\* has no max_tasks entry.
C7_MaxTasksIsPeriodTimesOwnScenes ==
    returned # <<>> =>
        /\ call.mode = "valid" =>
             /\ Latest.scene_period = VALID_SAMPLES_IN_SCENE
             /\ "max_tasks" \in DOMAIN Latest
             /\ Latest.max_tasks = VALID_SAMPLES_IN_SCENE * Len(Latest.scenes)
        /\ call.mode = "test" =>
             /\ Latest.scene_period = TEST_SAMPLES_IN_SCENE
             /\ "max_tasks" \in DOMAIN Latest
             /\ Latest.max_tasks = TEST_SAMPLES_IN_SCENE * Len(Latest.scenes)
        /\ call.mode = "train" => "max_tasks" \notin DOMAIN Latest

\* a validation worker that got two scenes after one that got a single scene
C7_Witness ==
    /\ Len(returned) = 2
    /\ call.mode = "valid"
    /\ Len(Latest.scenes) = 2
    /\ Latest.max_tasks = 10
    /\ Len(returned[1].scenes) = 1

\* C9 as stated: no two returned dicts have the same env_args dict, and a
\* call leaves the contents of the dict returned before it (its env_args
\* included) as they were.
C9_ReturnedDictsAreSelfContained ==
    /\ [](Len(returned) = 2 => returned[1].env_args # returned[2].env_args)
    /\ [][IF raised' = "none"
          THEN returned # <<>> =>
                   Contents(Latest, heap) = Contents(returned'[1], heap')
          ELSE \A i \in 1..Len(returned) :
                   Contents(returned[i], heap) = Contents(returned'[i], heap')]_vars
(***************************************************************************)
(* Properties of the stage cursor.                                         *)
(***************************************************************************)
\* C8: the cursor starts at stage 0 with no steps consumed; every request
\* either keeps the stage or moves it forward by exactly one with the steps
\* reset to 0; a step report moves it exactly when the stage's budget is met;
\* the stage after the last one is "complete"; and once complete, a step
\* report or an advance request changes neither stage nor steps and raises
\* nothing.
C8_StageCursor ==
    /\ current_stage = 0 /\ steps_in_stage = 0
    /\ [](current_stage \in 0..Len(pipeline_stages))
    /\ [][/\ \/ current_stage' = current_stage
             \/ current_stage' = current_stage + 1 /\ steps_in_stage' = 0
          /\ (request'.kind = "report" /\ ~Complete) =>
                IF BudgetMet(request'.n)
                THEN current_stage' = current_stage + 1 /\ steps_in_stage' = 0
                ELSE /\ current_stage' = current_stage
                     /\ steps_in_stage' = steps_in_stage + request'.n
          /\ Complete => UNCHANGED <<current_stage, steps_in_stage>>
          /\ request'.err = "none"]_vars

\* a pipeline of two stages that was completed by step reports and then
\* received one more report
C8_Witness ==
    /\ Len(pipeline_stages) = 2
    /\ Complete
    /\ request.kind = "report"
    /\ steps_in_stage = 0
====
